---- MODULE Spec2Model ----
(***************************************************************************)
(* Model of the SupraCon SQUID electronics driver (supracon_squid.py):     *)
(* the value codec, opcode construction, the echo-validated exchanges of   *)
(* a channel, the channel's safe-default lifecycle and the device's        *)
(* open/close sequencing with the capability scan, and the scanner of      *)
(* serial ports, list_devices.                                             *)
(*                                                                         *)
(* Every handler is one action.  A handler's body is a pure operator that  *)
(* threads a call context T through the statements of the code:            *)
(*   T.port  the transport's is_open flag                                  *)
(*   T.wire  the I/O events of the call so far, in order                   *)
(*   T.nw    how many writes the call has attempted on the serial line     *)
(*   T.tx    the frame written last, T.rx the bytes read last              *)
(*   T.ret   the value returned: "True", "False", "None", or "bytes",      *)
(*           "int", "channel" for a value of that type                     *)
(*   T.out   a returned byte string, T.val a returned integer              *)
(*   T.found a returned list of (port, baud rate) pairs                    *)
(*   T.exc   the exception in flight ("none" when there is none)           *)
(* A statement is skipped when an exception is in flight, which is how an  *)
(* exception propagates to the caller.                                     *)
(*                                                                         *)
(* Physical values are integers: volts in thousandths, microamperes in     *)
(* tenths.                                                                 *)
(***************************************************************************)
EXTENDS Integers, Sequences, FiniteSets, TLC

VARIABLES is_open, channels, held, orphans, wire, last

vars == <<is_open, channels, held, orphans, wire, last>>

---------------------------------------------------------------------------
(* Bounds of the model *)

\* how many addresses of the bus may hold a responder that does not echo
MaxSlots == 2
\* the transport may break at the k-th write of a call, k up to MaxBreak,
\* counted from the start of the call and from the start of the scan
MaxBreak == 2
\* how many channel objects the caller keeps a reference to
MaxRefs == 1

---------------------------------------------------------------------------
(* Program constants *)

FIRST_CHANNEL == 1
LAST_CHANNEL == 32
READ_SIZE == 4
FULL_SCALE == 65535
UNMAP_SCALE == 65536
BYTE_MAX == 255
ACK == 255
BROADCAST == 255

DAC_OUTPUT == 1
ADC_INPUT_1 == 2
ADC_INPUT_95 == 3
SET_FLL_MODE == 4
SWITCH_AC_FLUX == 5
SQUID_HEATER_SWITCH == 6
START_AUTOTUNE == 7
READ_NONVOLATILE_MEMORY == 8
WRITE_NONVOLATILE_MEMORY == 9
SWITCH_TEST_IN == 10
SWITCH_FEEDBACK == 11
CHANGE_INTERNAL_AC_FLUX_AMPLITUDE == 12
SET_DETECTOR_HEATER_CURRENT == 13

DC_BIAS == 0
DC_FLUX == 1
BIAS == 2
OFFSET == 3
FLUX == 4

FLL_MODE == 0
RESET_MODE == 1
FAST_RESET_MODE == 2

START_BIAS == 0
END_BIAS == 2

\* the members of the IntEnum classes, by class name
EnumValues(type) ==
    CASE type = "_DACOutput" -> {DC_BIAS, DC_FLUX, BIAS, OFFSET, FLUX}
      [] type = "_FLLMode" -> {FLL_MODE, RESET_MODE, FAST_RESET_MODE}
      [] type = "_Address" -> {START_BIAS, END_BIAS, 4, 6, 8, 10}
      [] OTHER -> {}

ZeroFrame == <<BROADCAST, 0, 0, 0>>

---------------------------------------------------------------------------
(* Integer helpers: Python's &, round(), int.to_bytes, int.from_bytes *)

RECURSIVE BitAnd(_, _)
BitAnd(x, y) ==
    IF x = 0 \/ y = 0 THEN 0
    ELSE (IF x % 2 = 1 /\ y % 2 = 1 THEN 1 ELSE 0) + 2 * BitAnd(x \div 2, y \div 2)

\* round(n / d) for n >= 0, d > 0: to nearest, a half goes to the even neighbour
RoundHalfEven(n, d) ==
    LET q == n \div d
        r == n % d
    IN IF 2 * r < d THEN q
       ELSE IF 2 * r > d THEN q + 1
       ELSE IF q % 2 = 0 THEN q ELSE q + 1

\* n.to_bytes(2, 'big', signed=False), for 0 <= n <= 0xffff
ToBytes2(n) == <<n \div 256, n % 256>>

\* n.to_bytes(2, 'big', signed=True), for -0x8000 <= n < 0x8000
ToBytes2Signed(n) == ToBytes2(IF n < 0 THEN n + 65536 ELSE n)

\* int.from_bytes(b, 'big', signed=False), of a byte string of any length
RECURSIVE FromBytesBig(_)
FromBytesBig(b) ==
    IF Len(b) = 0 THEN 0
    ELSE 256 * FromBytesBig(SubSeq(b, 1, Len(b) - 1)) + b[Len(b)]

---------------------------------------------------------------------------
(* The value codec *)

\* a _map that clamps x to the interval
_map_clamped(x, minimum, maximum) ==
    [ok |-> TRUE,
     bytes |-> ToBytes2(RoundHalfEven(((IF x < minimum THEN minimum
                                        ELSE IF x > maximum THEN maximum ELSE x) - minimum)
                                          * FULL_SCALE,
                                      maximum - minimum))]

\* a _map that writes the low byte first: to_bytes(2, 'little')
_map_low_byte_first(x, minimum, maximum) ==
    IF ~(minimum <= x /\ x <= maximum) THEN [ok |-> FALSE, bytes |-> <<>>]
    ELSE [ok |-> TRUE,
          bytes |-> LET b == ToBytes2(RoundHalfEven((x - minimum) * FULL_SCALE, maximum - minimum))
                    IN <<b[2], b[1]>>]

\* _map: [ok |-> FALSE] stands for the ValueError
_map(x, minimum, maximum) ==
    IF ~(minimum <= x /\ x <= maximum) THEN [ok |-> FALSE, bytes |-> <<>>]
    ELSE [ok |-> TRUE,
          bytes |-> ToBytes2(RoundHalfEven((x - minimum) * FULL_SCALE, maximum - minimum))]

\* _unmap, as the pair <<numerator, denominator>> of the exact quotient
_unmap(x, minimum, maximum) ==
    <<FromBytesBig(x) * (maximum - minimum) + minimum * UNMAP_SCALE, UNMAP_SCALE>>

---------------------------------------------------------------------------
(* Opcode construction.  A parameter is a typed value: ptype is "int" or   *)
(* the name of the IntEnum class it is a member of.                        *)

\* a _command that takes any integer of three bits as DAC output
_command_untyped(action, ptype, parameter) ==
    IF action = DAC_OUTPUT /\ parameter \in 0..7
    THEN [ok |-> TRUE, code |-> action * 8 + parameter]
    ELSE IF action \in {ADC_INPUT_1, ADC_INPUT_95, START_AUTOTUNE,
                        READ_NONVOLATILE_MEMORY, WRITE_NONVOLATILE_MEMORY,
                        SWITCH_TEST_IN, CHANGE_INTERNAL_AC_FLUX_AMPLITUDE}
    THEN [ok |-> TRUE, code |-> action * 8]
    ELSE IF action = SET_FLL_MODE /\ ptype = "_FLLMode"
    THEN [ok |-> TRUE, code |-> action * 8 + parameter]
    ELSE IF action = SWITCH_AC_FLUX
    THEN [ok |-> TRUE, code |-> action * 8 + 1]
    ELSE IF action = SQUID_HEATER_SWITCH
    THEN [ok |-> TRUE, code |-> action * 8 + 2]
    ELSE IF action = SWITCH_FEEDBACK /\ parameter \in {0, 1}
    THEN [ok |-> TRUE, code |-> action * 8 + parameter]
    ELSE [ok |-> FALSE, code |-> 0]

\* a _command that encodes the caller's parameter for SWITCH_AC_FLUX
_command_caller_parameter(action, ptype, parameter) ==
    IF action = DAC_OUTPUT /\ ptype = "_DACOutput"
    THEN [ok |-> TRUE, code |-> action * 8 + parameter]
    ELSE IF action \in {ADC_INPUT_1, ADC_INPUT_95, START_AUTOTUNE,
                        READ_NONVOLATILE_MEMORY, WRITE_NONVOLATILE_MEMORY,
                        SWITCH_TEST_IN, CHANGE_INTERNAL_AC_FLUX_AMPLITUDE}
    THEN [ok |-> TRUE, code |-> action * 8]
    ELSE IF action = SET_FLL_MODE /\ ptype = "_FLLMode"
    THEN [ok |-> TRUE, code |-> action * 8 + parameter]
    ELSE IF action = SWITCH_AC_FLUX
    THEN [ok |-> TRUE, code |-> action * 8 + parameter]
    ELSE IF action = SQUID_HEATER_SWITCH
    THEN [ok |-> TRUE, code |-> action * 8 + 2]
    ELSE IF action = SWITCH_FEEDBACK /\ parameter \in {0, 1}
    THEN [ok |-> TRUE, code |-> action * 8 + parameter]
    ELSE [ok |-> FALSE, code |-> 0]

_command(action, ptype, parameter) ==
    IF action = DAC_OUTPUT /\ ptype = "_DACOutput"
    THEN [ok |-> TRUE, code |-> action * 8 + parameter]
    ELSE IF action \in {ADC_INPUT_1, ADC_INPUT_95, START_AUTOTUNE,
                        READ_NONVOLATILE_MEMORY, WRITE_NONVOLATILE_MEMORY,
                        SWITCH_TEST_IN, CHANGE_INTERNAL_AC_FLUX_AMPLITUDE}
    THEN [ok |-> TRUE, code |-> action * 8]
    ELSE IF action = SET_FLL_MODE /\ ptype = "_FLLMode"
    THEN [ok |-> TRUE, code |-> action * 8 + parameter]
    ELSE IF action = SWITCH_AC_FLUX
    THEN [ok |-> TRUE, code |-> action * 8 + 1]
    ELSE IF action = SQUID_HEATER_SWITCH
    THEN [ok |-> TRUE, code |-> action * 8 + 2]
    ELSE IF action = SWITCH_FEEDBACK /\ parameter \in {0, 1}
    THEN [ok |-> TRUE, code |-> action * 8 + parameter]
    ELSE [ok |-> FALSE, code |-> 0]

---------------------------------------------------------------------------
(* The simulated responder on the serial line.  An environment env is      *)
(*   env.portfail  whether opening the port fails                          *)
(*   env.brk       the number of the first write of the call that fails    *)
(*                 (the line is down from then on), 0 for none             *)
(*   env.scan      whether capability probes are answered from env.probe   *)
(*   env.probe     the answer of each slot address to its capability probe *)
(*   env.reply     how the k-th exchange of the call is answered, cyclic   *)

SlotAddrs == <<5, 1, 32, 2, 16, 31>>
Slots == {SlotAddrs[i] : i \in 1..MaxSlots}

\* capability masks a simulated channel reports
Masks == {0, 1, 3, 258}

ProbeKinds ==
    {<<"echo", 0>>, <<"garbage", 0>>, <<"empty", 0>>, <<"short", 0>>}
        \cup {<<"caps", m>> : m \in Masks}

ReplyKinds == {"ack", "echo", "data", "addr", "short", "empty"}

IsProbe(frame) ==
    /\ Len(frame) = 4
    /\ frame[1] \in FIRST_CHANNEL..LAST_CHANNEL
    /\ frame[2] = 64 /\ frame[3] = 0 /\ frame[4] = 240

\* the bytes a slot answers to its capability probe
ProbeBytes(kind, frame) ==
    CASE kind[1] = "echo" -> frame
      [] kind[1] = "caps" -> <<frame[1], ACK>> \o ToBytes2(kind[2])
      [] kind[1] = "garbage" -> <<frame[1], 0, 0, 0>>
      [] kind[1] = "empty" -> <<>>
      [] kind[1] = "short" -> <<frame[1], ACK>>

\* the bytes that answer any other frame
ReplyBytes(kind, frame) ==
    CASE kind = "ack" -> <<frame[1], ACK, frame[3], frame[4]>>
      [] kind = "echo" -> frame
      [] kind = "data" -> <<frame[1], ACK, 18, 52>>
      [] kind = "addr" -> <<(frame[1] % LAST_CHANNEL) + 1, ACK, frame[3], frame[4]>>
      [] kind = "short" -> <<frame[1], ACK, frame[3]>>
      [] kind = "empty" -> <<>>

\* what Serial.read(4) returns after frame was the k-th write of the call
Respond(env, k, frame) ==
    IF env.scan /\ IsProbe(frame)
    THEN IF frame[1] \in Slots THEN ProbeBytes(env.probe[frame[1]], frame) ELSE frame
    ELSE ReplyBytes(env.reply[((k - 1) % Len(env.reply)) + 1], frame)

---------------------------------------------------------------------------
(* The transport: Serial.write and Serial.read under SupraConSQUID.write *)

NewCall(port) ==
    [port |-> port, wire |-> <<>>, nw |-> 0, tx |-> <<>>, rx |-> <<>>,
     ret |-> "None", out |-> <<>>, val |-> 0, found |-> <<>>, exc |-> "none"]

Raise(T, e) ==
    [T EXCEPT !.exc = e, !.ret = "None", !.out = <<>>, !.val = 0, !.found = <<>>]

Return(T, v) == IF T.exc # "none" THEN T ELSE [T EXCEPT !.ret = v]

Event(T, kind, data) == [T EXCEPT !.wire = Append(@, <<kind, data>>)]

\* Serial.write
SerialWrite(T, env, data) ==
    IF T.exc # "none" THEN T
    ELSE IF ~T.port THEN Raise(T, "PortNotOpenError")
    ELSE IF env.brk # 0 /\ T.nw + 1 >= env.brk
    THEN Raise([T EXCEPT !.nw = @ + 1], "SerialException")
    ELSE [Event(T, "write", data) EXCEPT !.nw = @ + 1, !.tx = data]

\* Serial.read(size): a timeout returns the bytes received so far
SerialRead(T, env, size) ==
    IF T.exc # "none" THEN T
    ELSE IF ~T.port THEN Raise(T, "PortNotOpenError")
    ELSE LET r == Respond(env, T.nw, T.tx)
             got == SubSeq(r, 1, IF Len(r) < size THEN Len(r) ELSE size)
         IN [Event(T, "read", got) EXCEPT !.rx = got]

\* a write that waits before every frame to the broadcast address
write_delays_every_broadcast(T, env, data) ==
    IF T.exc # "none" THEN T
    ELSE SerialWrite(IF data[1] = BROADCAST THEN Event(T, "sleep", <<>>) ELSE T, env, data)

\* SupraConSQUID.write: the settling delay comes before the literal zero frame
write(T, env, data) ==
    IF T.exc # "none" THEN T
    ELSE SerialWrite(IF data = ZeroFrame THEN Event(T, "sleep", <<>>) ELSE T, env, data)

---------------------------------------------------------------------------
(* Channel exchanges.  ch is [channel, capabilities_code]. *)

\* a validation that leaves out the range of the data bytes
_validate_command_and_length(T, command, data) ==
    IF T.exc # "none" THEN T
    ELSE IF ~(0 <= command /\ command <= BYTE_MAX) THEN Raise(T, "ValueError")
    ELSE IF Len(data) # 2 THEN Raise(T, "ValueError")
    ELSE T

_validate_parameters(T, command, data) ==
    IF T.exc # "none" THEN T
    ELSE IF ~(0 <= command /\ command <= BYTE_MAX) THEN Raise(T, "ValueError")
    ELSE IF Len(data) # 2 THEN Raise(T, "ValueError")
    ELSE IF \E i \in DOMAIN data : ~(0 <= data[i] /\ data[i] <= BYTE_MAX)
    THEN Raise(T, "BytesWarning")
    ELSE T

\* return self.parent.read(4)
ReturnRead(T) == IF T.exc # "none" THEN T ELSE [T EXCEPT !.ret = "bytes", !.out = T.rx]

_communicate(T, env, ch, command, data) ==
    ReturnRead(SerialRead(write(_validate_parameters(T, command, data), env,
                                <<ch.channel, command>> \o data),
                          env, READ_SIZE))

\* the comparison and the return of _query; T.out is actual_response
ReturnPayload(T, expected_response) ==
    IF T.exc # "none" THEN T
    ELSE IF T.out # expected_response THEN Raise(T, "ConnectionError")
    ELSE [T EXCEPT !.ret = "bytes", !.out = SubSeq(T.out, 3, Len(T.out))]

_query(T, env, ch, command, data) ==
    ReturnPayload(_communicate(_validate_parameters(T, command, data), env, ch, command, data),
                  <<ch.channel, ACK>> \o data)

\* a comparison of the address and flag bytes alone
ReturnMatchHeader(T, expected_response) ==
    IF T.exc # "none" THEN T
    ELSE [T EXCEPT !.ret = IF Len(T.out) >= 2 /\ T.out[1] = expected_response[1]
                                              /\ T.out[2] = expected_response[2]
                           THEN "True" ELSE "False",
                   !.out = <<>>]

\* the comparison and the return of _issue; T.out is actual_response
ReturnMatch(T, expected_response) ==
    IF T.exc # "none" THEN T
    ELSE [T EXCEPT !.ret = IF T.out = expected_response THEN "True" ELSE "False",
                   !.out = <<>>]

\* an _issue that sends the frame a second time when it was not acknowledged
_issue_retried(T, env, ch, command, data) ==
    LET R == ReturnMatch(_communicate(_validate_parameters(T, command, data), env, ch, command, data),
                         <<ch.channel, ACK>> \o data)
    IN IF R.exc = "none" /\ R.ret = "False"
       THEN ReturnMatch(_communicate(R, env, ch, command, data), <<ch.channel, ACK>> \o data)
       ELSE R

_issue(T, env, ch, command, data) ==
    ReturnMatch(_communicate(_validate_parameters(T, command, data), env, ch, command, data),
                <<ch.channel, ACK>> \o data)

_send_float(T, env, ch, command, value, minimum, maximum) ==
    IF T.exc # "none" THEN T
    ELSE IF ~(minimum <= value /\ value <= maximum) THEN Raise(T, "ValueError")
    ELSE _issue(T, env, ch, command, _map(value, minimum, maximum).bytes)

\* self._issue(_command(...), *data): c is what _command gave
IssueCommand(T, env, ch, c, data) ==
    IF T.exc # "none" THEN T
    ELSE IF ~c.ok THEN Raise(T, "ValueError")
    ELSE _issue(T, env, ch, c.code, data)

\* self._query(_command(...), *data): c is what _command gave
QueryCommand(T, env, ch, c, data) ==
    IF T.exc # "none" THEN T
    ELSE IF ~c.ok THEN Raise(T, "ValueError")
    ELSE _query(T, env, ch, c.code, data)

\* self._send_float(command=_command(...), ...): c is what _command gave
SendFloatCommand(T, env, ch, c, value, minimum, maximum) ==
    IF T.exc # "none" THEN T
    ELSE IF ~c.ok THEN Raise(T, "ValueError")
    ELSE _send_float(T, env, ch, c.code, value, minimum, maximum)

---------------------------------------------------------------------------
(* Channel operations.  The capability test is Python's truth value of     *)
(* capabilities_code & mask.  A command built by _command is an argument   *)
(* of the call that sends it, so its ValueError comes before any I/O.      *)

\* a change sent as sign and magnitude instead of two's complement
change_ac_flux_amplitude_by_sign_magnitude(T, env, ch, change) ==
    IF T.exc # "none" THEN T
    ELSE IF BitAnd(ch.capabilities_code, 1) = 0 THEN Return(T, "False")
    ELSE IF ~(-32768 <= change /\ change < 32768) THEN Raise(T, "ValueError")
    ELSE IF change = 0 THEN Return(T, "True")
    ELSE IssueCommand(T, env, ch, _command(CHANGE_INTERNAL_AC_FLUX_AMPLITUDE, "int", 0),
                      ToBytes2(IF change < 0 THEN 32768 + ((-change) % 32768) ELSE change))

change_ac_flux_amplitude_by(T, env, ch, change) ==
    IF T.exc # "none" THEN T
    ELSE IF BitAnd(ch.capabilities_code, 1) = 0 THEN Return(T, "False")
    ELSE IF ~(-32768 <= change /\ change < 32768) THEN Raise(T, "ValueError")
    ELSE IF change = 0 THEN Return(T, "True")
    ELSE IssueCommand(T, env, ch, _command(CHANGE_INTERNAL_AC_FLUX_AMPLITUDE, "int", 0), ToBytes2Signed(change))

ac_flux(T, env, ch, on) ==
    IF T.exc # "none" THEN T
    ELSE IF BitAnd(ch.capabilities_code, 1) = 0 THEN Return(T, "False")
    ELSE IssueCommand(T, env, ch, _command(SWITCH_AC_FLUX, "int", 0), <<0, IF on THEN 1 ELSE 0>>)

reset_fll(T, env, ch, on) ==
    IF T.exc # "none" THEN T
    ELSE IF BitAnd(ch.capabilities_code, 1) = 0 THEN Return(T, "False")
    ELSE IF on
    THEN IssueCommand(T, env, ch, _command(SET_FLL_MODE, "_FLLMode", RESET_MODE), <<0, 0>>)
    ELSE IssueCommand(T, env, ch, _command(SET_FLL_MODE, "_FLLMode", FLL_MODE), <<0, 0>>)

test_in(T, env, ch, on) ==
    IF T.exc # "none" THEN T
    ELSE IF BitAnd(ch.capabilities_code, 1) = 0 THEN Return(T, "False")
    ELSE IssueCommand(T, env, ch, _command(SWITCH_TEST_IN, "int", 0), <<0, IF on THEN 1 ELSE 0>>)

dc_bias(T, env, ch, value) ==
    IF T.exc # "none" THEN T
    ELSE IF BitAnd(ch.capabilities_code, 1) = 0 THEN Return(T, "False")
    ELSE SendFloatCommand(T, env, ch, _command(DAC_OUTPUT, "_DACOutput", DC_BIAS), value, -2500, 2500)

\* bias behind the capability test of the extended operations
bias_extended_test(T, env, ch, value) ==
    IF T.exc # "none" THEN T
    ELSE IF BitAnd(ch.capabilities_code, 3) = 0 THEN Return(T, "False")
    ELSE SendFloatCommand(T, env, ch, _command(DAC_OUTPUT, "_DACOutput", BIAS), value, -2500, 2500)

bias(T, env, ch, value) ==
    IF T.exc # "none" THEN T
    ELSE IF BitAnd(ch.capabilities_code, 1) = 0 THEN Return(T, "False")
    ELSE SendFloatCommand(T, env, ch, _command(DAC_OUTPUT, "_DACOutput", BIAS), value, -2500, 2500)

offset(T, env, ch, value) ==
    IF T.exc # "none" THEN T
    ELSE IF BitAnd(ch.capabilities_code, 1) = 0 THEN Return(T, "False")
    ELSE SendFloatCommand(T, env, ch, _command(DAC_OUTPUT, "_DACOutput", OFFSET), value, -2500, 2500)

flux(T, env, ch, value) ==
    IF T.exc # "none" THEN T
    ELSE IF BitAnd(ch.capabilities_code, 1) = 0 THEN Return(T, "False")
    ELSE SendFloatCommand(T, env, ch, _command(DAC_OUTPUT, "_DACOutput", FLUX), value, -2500, 2500)

heat_squid(T, env, ch, duration_ms) ==
    IF T.exc # "none" THEN T
    ELSE IF BitAnd(ch.capabilities_code, 1) = 0 THEN Return(T, "False")
    ELSE IF ~(0 <= duration_ms /\ duration_ms <= 65535) THEN Raise(T, "ValueError")
    ELSE IssueCommand(T, env, ch, _command(SQUID_HEATER_SWITCH, "int", 0), ToBytes2(duration_ms))

\* a conjunction that leaves out the last element of the tuple
AllButLast(T, results) ==
    IF T.exc # "none" THEN T
    ELSE Return(T, IF \A i \in DOMAIN results : results[i] = "True" THEN "True" ELSE "False")

\* all(results + (T.ret,))
All(T, results) ==
    IF T.exc # "none" THEN T
    ELSE Return(T, IF T.ret = "True" /\ \A i \in DOMAIN results : results[i] = "True"
                   THEN "True" ELSE "False")

\* an autotune that stops at the first step that did not return True:
\* offset(0) and flux(0) and ... instead of all((...))
auto_tune_squid_short_circuit(T, env, ch, start_bias, end_bias) ==
    IF T.exc # "none" THEN T
    ELSE IF BitAnd(ch.capabilities_code, 1) = 0 THEN Return(T, "False")
    ELSE LET W == _command(WRITE_NONVOLATILE_MEMORY, "int", 0)
             T1 == offset(T, env, ch, 0)
             T2 == IF T1.ret = "True" THEN flux(T1, env, ch, 0) ELSE T1
             T3 == IF T2.ret = "True" THEN reset_fll(T2, env, ch, FALSE) ELSE T2
             T4 == IF T3.ret = "True" THEN ac_flux(T3, env, ch, FALSE) ELSE T3
             T5 == IF T4.ret = "True" THEN test_in(T4, env, ch, FALSE) ELSE T4
             T6 == IF T5.ret = "True" THEN IssueCommand(T5, env, ch, W, <<0, START_BIAS>>) ELSE T5
             T7 == IF T6.ret = "True"
                   THEN SendFloatCommand(T6, env, ch, W, start_bias, -2500, 2500) ELSE T6
             T8 == IF T7.ret = "True" THEN IssueCommand(T7, env, ch, W, <<0, END_BIAS>>) ELSE T7
             T9 == IF T8.ret = "True"
                   THEN SendFloatCommand(T8, env, ch, W, end_bias, -2500, 2500) ELSE T8
         IN IF T9.ret = "True"
            THEN IssueCommand(T9, env, ch, _command(START_AUTOTUNE, "int", 0), <<0, 0>>)
            ELSE T9

\* all((...)): the ten elements of the tuple are evaluated in order, each
\* whatever the others returned, and the result is their conjunction
auto_tune_squid(T, env, ch, start_bias, end_bias) ==
    IF T.exc # "none" THEN T
    ELSE IF BitAnd(ch.capabilities_code, 1) = 0 THEN Return(T, "False")
    ELSE LET T1 == offset(T, env, ch, 0)
             T2 == flux(T1, env, ch, 0)
             T3 == reset_fll(T2, env, ch, FALSE)
             T4 == ac_flux(T3, env, ch, FALSE)
             T5 == test_in(T4, env, ch, FALSE)
             T6 == IssueCommand(T5, env, ch, _command(WRITE_NONVOLATILE_MEMORY, "int", 0),
                                <<0, START_BIAS>>)
             T7 == SendFloatCommand(T6, env, ch, _command(WRITE_NONVOLATILE_MEMORY, "int", 0),
                                    start_bias, -2500, 2500)
             T8 == IssueCommand(T7, env, ch, _command(WRITE_NONVOLATILE_MEMORY, "int", 0),
                                <<0, END_BIAS>>)
             T9 == SendFloatCommand(T8, env, ch, _command(WRITE_NONVOLATILE_MEMORY, "int", 0),
                                    end_bias, -2500, 2500)
             T10 == IssueCommand(T9, env, ch, _command(START_AUTOTUNE, "int", 0), <<0, 0>>)
         IN All(T10, <<T1.ret, T2.ret, T3.ret, T4.ret, T5.ret, T6.ret, T7.ret, T8.ret, T9.ret>>)

detector_bias(T, env, ch, value) ==
    IF T.exc # "none" THEN T
    ELSE IF BitAnd(ch.capabilities_code, 3) = 0 THEN Return(T, "False")
    ELSE SendFloatCommand(T, env, ch, _command(DAC_OUTPUT, "_DACOutput", DC_FLUX), value, 0, 2500)

heat_detector(T, env, ch, value) ==
    IF T.exc # "none" THEN T
    ELSE IF BitAnd(ch.capabilities_code, 3) = 0 THEN Return(T, "False")
    ELSE SendFloatCommand(T, env, ch, _command(SET_DETECTOR_HEATER_CURRENT, "int", 0), value, 0, 10000)

fast_reset_fll(T, env, ch) ==
    IF T.exc # "none" THEN T
    ELSE IF BitAnd(ch.capabilities_code, 3) = 0 THEN Return(T, "False")
    ELSE IssueCommand(T, env, ch, _command(SET_FLL_MODE, "_FLLMode", FAST_RESET_MODE), <<0, 0>>)

\* int.from_bytes(T.out, 'big')
ReturnInt(T) ==
    IF T.exc # "none" THEN T
    ELSE [T EXCEPT !.ret = "int", !.val = FromBytesBig(T.out), !.out = <<>>]

\* the firmware property: one query of nonvolatile memory at 0x00f2
firmware(T, env, ch) ==
    IF T.exc # "none" THEN T
    ELSE ReturnInt(QueryCommand(T, env, ch, _command(READ_NONVOLATILE_MEMORY, "int", 0),
                                <<0, 242>>))

---------------------------------------------------------------------------
(* Channel lifecycle *)

\* a constructor that leaves the test input and the AC flux as they are
__init___outputs_only(T, env, ch) ==
    LET T1 == detector_bias(T, env, ch, 0)
        T2 == dc_bias(T1, env, ch, 0)
        T3 == offset(T2, env, ch, 0)
        T4 == flux(T3, env, ch, 0)
        T8 == bias(T4, env, ch, 0)
    IN Return(T8, "None")

\* SupraConSQUIDChannel.__init__: the safe-default sequence; results are dropped
__init__(T, env, ch) ==
    LET T1 == detector_bias(T, env, ch, 0)
        T2 == dc_bias(T1, env, ch, 0)
        T3 == offset(T2, env, ch, 0)
        T4 == flux(T3, env, ch, 0)
        T5 == change_ac_flux_amplitude_by(T4, env, ch, -12)
        T6 == ac_flux(T5, env, ch, FALSE)
        T7 == test_in(T6, env, ch, FALSE)
        T8 == bias(T7, env, ch, 0)
    IN Return(T8, "None")

\* SupraConSQUIDChannel.__del__: an exception raised in a finalizer ends the
\* finalizer and is then ignored by the interpreter
__del__(T, env, ch) ==
    LET T1 == detector_bias(T, env, ch, 0)
        T2 == dc_bias(T1, env, ch, 0)
        T3 == bias(T2, env, ch, 0)
        T4 == offset(T3, env, ch, 0)
        T5 == flux(T4, env, ch, 0)
        T6 == reset_fll(T5, env, ch, TRUE)
        T7 == ac_flux(T6, env, ch, FALSE)
        T8 == test_in(T7, env, ch, FALSE)
    IN IF T.exc # "none" THEN T ELSE [T8 EXCEPT !.exc = "none", !.ret = "None", !.out = <<>>, !.val = 0]

---------------------------------------------------------------------------
(* The device.  D is the device during a call:                             *)
(*   D.T         the call context                                          *)
(*   D.channels  the dict _channels, as the sequence of its values in      *)
(*               insertion order (each value holds its key, .channel)      *)
(*   D.held      the keys whose channel object the caller also references  *)
(*   D.orphans   channel objects that left the dict, or never entered it,  *)
(*               and are still referenced: their finalizer has not run     *)

Keys(chs) == {chs[i].channel : i \in DOMAIN chs}

\* _channels[key] = ch
SetItem(chs, ch) ==
    IF ch.channel \in Keys(chs)
    THEN [i \in DOMAIN chs |-> IF chs[i].channel = ch.channel THEN ch ELSE chs[i]]
    ELSE Append(chs, ch)

\* the finalizers that run while the dict drops its values, in insertion
\* order: the finalizer of an object runs when its last reference goes
RECURSIVE Finalizers(_, _, _, _)
Finalizers(T, env, chs, hold) ==
    IF chs = <<>> THEN T
    ELSE Finalizers(IF Head(chs).channel \in hold THEN T ELSE __del__(T, env, Head(chs)),
                    env, Tail(chs), hold)

\* _channels.clear()
clear(D, env) ==
    IF D.T.exc # "none" THEN D
    ELSE [T |-> Finalizers(D.T, env, D.channels, D.held),
          channels |-> <<>>,
          held |-> {},
          orphans |-> D.orphans \cup
                      {D.channels[i] : i \in {j \in DOMAIN D.channels :
                                                D.channels[j].channel \in D.held}}]

\* a frame sent without waiting for its answer
ExchangeUnread(T, env, frame) == write(T, env, frame)

\* self.write(frame); print(..., self.read(4))
Exchange(T, env, frame) == SerialRead(write(T, env, frame), env, READ_SIZE)

\* self._channels[channel] = SupraConSQUIDChannel(self, channel, ...), with T the
\* call as __init__ left it: an object whose __init__ raised is not stored, and
\* the traceback of the exception keeps it alive
Store(D, ch, T) ==
    IF T.exc # "none" THEN [D EXCEPT !.T = T, !.orphans = @ \cup {ch}]
    ELSE [D EXCEPT !.T = T, !.channels = SetItem(@, ch)]

\* the body of the scan loop after the exchange, with T the call as the read left it
Probed(D, env, channel, request, T) ==
    IF T.exc # "none" THEN [D EXCEPT !.T = T]
    ELSE IF Len(T.rx) < 2 THEN [D EXCEPT !.T = Raise(T, "IndexError")]
    ELSE IF T.rx[2] = ACK
    THEN Store(D, [channel |-> channel,
                   capabilities_code |-> FromBytesBig(SubSeq(T.rx, 3, Len(T.rx)))],
               __init__(T, env, [channel |-> channel,
                                 capabilities_code |-> FromBytesBig(SubSeq(T.rx, 3, Len(T.rx)))]))
    ELSE IF T.rx # request THEN [D EXCEPT !.T = Raise(T, "ConnectionError")]
    ELSE [D EXCEPT !.T = T]

\* a scan that ends one address early: range(0x01, 0x20)
RECURSIVE ScanEndsEarly(_, _, _)
ScanEndsEarly(D, env, channel) ==
    IF D.T.exc # "none" \/ channel >= LAST_CHANNEL THEN D
    ELSE ScanEndsEarly(Probed(D, env, channel, <<channel, 64, 0, 240>>,
                              Exchange(D.T, env, <<channel, 64, 0, 240>>)),
                       env, channel + 1)

\* the capability scan: for channel in range(0x01, 0x21)
RECURSIVE Scan(_, _, _)
Scan(D, env, channel) ==
    IF D.T.exc # "none" \/ channel > LAST_CHANNEL THEN D
    ELSE Scan(Probed(D, env, channel, <<channel, 64, 0, 240>>,
                     Exchange(D.T, env, <<channel, 64, 0, 240>>)),
              env, channel + 1)

\* Serial.open
SerialOpen(T, env) ==
    IF T.exc # "none" THEN T
    ELSE IF env.portfail THEN Raise(T, "SerialException")
    ELSE [Event(T, "port_open", <<>>) EXCEPT !.port = TRUE]

\* Serial.close
SerialClose(T) ==
    IF T.exc # "none" \/ ~T.port THEN T
    ELSE [Event(T, "port_close", <<>>) EXCEPT !.port = FALSE]

\* an open without the test of is_open
open_unguarded(D, env) ==
    LET T0 == [Event(D.T, "port_open", <<>>) EXCEPT !.port = TRUE]
        T1 == Exchange(T0, env, <<BROADCAST, 9, 0, 0>>)
        T2 == Exchange(T1, env, ZeroFrame)
        T3 == Exchange(T2, env, <<BROADCAST, 10, 0, 0>>)
        T4 == Exchange(T3, env, ZeroFrame)
        T5 == Exchange(T4, env, <<BROADCAST, 11, 0, 0>>)
        T6 == Exchange(T5, env, ZeroFrame)
    IN Scan(clear([D EXCEPT !.T = T6], env), env, FIRST_CHANNEL)

\* an open that undoes itself when the scan fails: the channels found are
\* dropped and the transport is closed
open_rolls_back(D, env) ==
    IF D.T.port THEN D
    ELSE LET R == open_unguarded(D, [env EXCEPT !.portfail = FALSE])
         IN IF env.portfail THEN [D EXCEPT !.T = Raise(D.T, "SerialException")]
            ELSE IF R.T.exc = "ConnectionError"
            THEN [R EXCEPT !.T = [Event(R.T, "port_close", <<>>) EXCEPT !.port = FALSE],
                           !.channels = <<>>]
            ELSE R

\* an open that sends the three broadcast commands first and the zero frames after
open_zero_frames_last(D, env) ==
    IF D.T.port THEN D
    ELSE LET T0 == SerialOpen(D.T, env)
             T1 == Exchange(T0, env, <<BROADCAST, 9, 0, 0>>)
             T2 == Exchange(T1, env, <<BROADCAST, 10, 0, 0>>)
             T3 == Exchange(T2, env, <<BROADCAST, 11, 0, 0>>)
             T4 == Exchange(T3, env, ZeroFrame)
             T5 == Exchange(T4, env, ZeroFrame)
             T6 == Exchange(T5, env, ZeroFrame)
         IN Scan(clear([D EXCEPT !.T = T6], env), env, FIRST_CHANNEL)

\* SupraConSQUID.open
open(D, env) ==
    IF D.T.port THEN D
    ELSE LET T0 == SerialOpen(D.T, env)
             T1 == Exchange(T0, env, <<BROADCAST, 9, 0, 0>>)
             T2 == Exchange(T1, env, ZeroFrame)
             T3 == Exchange(T2, env, <<BROADCAST, 10, 0, 0>>)
             T4 == Exchange(T3, env, ZeroFrame)
             T5 == Exchange(T4, env, <<BROADCAST, 11, 0, 0>>)
             T6 == Exchange(T5, env, ZeroFrame)
         IN Scan(clear([D EXCEPT !.T = T6], env), env, FIRST_CHANNEL)

\* a close that leaves the dict as it is
close_keeps_channels(D, env) ==
    LET D2 == [D EXCEPT !.T = Exchange(Exchange(@, env, <<BROADCAST, 8, 0, 0>>), env, ZeroFrame)]
        D3 == IF D.T.port THEN D2 ELSE D
    IN [D3 EXCEPT !.T = SerialClose(@)]

\* SupraConSQUID.close
close(D, env) ==
    LET D1 == clear(D, env)
        D2 == [D1 EXCEPT !.T = Exchange(Exchange(@, env, <<BROADCAST, 8, 0, 0>>), env, ZeroFrame)]
        D3 == IF D.T.port THEN D2 ELSE D
    IN [D3 EXCEPT !.T = SerialClose(@)]

\* SupraConSQUID.__getitem__: [ok |-> FALSE] stands for IndexError or KeyError
__getitem__(chs, item) ==
    IF ~(0 <= item /\ item < Len(chs)) THEN [ok |-> FALSE, exc |-> "IndexError", at |-> 0]
    ELSE IF item \notin Keys(chs) THEN [ok |-> FALSE, exc |-> "KeyError", at |-> 0]
    ELSE [ok |-> TRUE, exc |-> "none",
          at |-> CHOOSE i \in DOMAIN chs : chs[i].channel = item]

\* SupraConSQUID.channels
channels_property(chs) == [i \in DOMAIN chs |-> chs[i].channel]

---------------------------------------------------------------------------
(* The scanner of serial ports.  It works on a Serial object s of its own: *)
(* T.port is s.is_open, and T.found is good_ports.  env says what the      *)
(* ports do:                                                               *)
(*   env.match   the (port, baud rate) pairs at which the probe is read    *)
(*               back unchanged                                            *)
(*   env.fault   one pair env.fault.at at which env.fault.step ("open",    *)
(*               "write" or "read") raises env.fault.exc, or at which the  *)
(*               read returns env.fault.bytes (step "reply"); step "none"  *)
(*               for a scan without fault                                  *)
(* Everywhere else the read times out and returns no byte.                 *)

\* comports(): the serial ports of the machine, as device, vid, pid
ComPorts ==
    << [device |-> 1, vid |-> 1027, pid |-> 24577],
       [device |-> 2, vid |-> 1027, pid |-> 24577],
       [device |-> 3, vid |-> 1659, pid |-> 8963] >>

BaudRates == <<57600, 9600, 38400, 19200>>

ScanProbe == <<0, 64, 0, 240>>

Faulty(env, device, baud_rate, step) ==
    env.fault.step = step /\ env.fault.at = <<device, baud_rate>>

\* s.open()
ProbeOpen(T, env, device, baud_rate) ==
    IF T.exc # "none" THEN T
    ELSE IF Faulty(env, device, baud_rate, "open") THEN Raise(T, env.fault.exc)
    ELSE [Event(T, "port_open", <<device, baud_rate>>) EXCEPT !.port = TRUE]

\* s.write(b'\x00\x40\x00\xf0')
ProbeWrite(T, env, device, baud_rate) ==
    IF T.exc # "none" THEN T
    ELSE IF Faulty(env, device, baud_rate, "write")
    THEN [Raise(T, env.fault.exc) EXCEPT !.port = T.port]
    ELSE Event(T, "write", ScanProbe)

\* what s.read(4) returns when it raises nothing
ProbeResponse(env, device, baud_rate) ==
    IF <<device, baud_rate>> \in env.match THEN ScanProbe
    ELSE IF Faulty(env, device, baud_rate, "reply") THEN env.fault.bytes
    ELSE <<>>

\* finally: s.close()
ProbeClose(T) == [Event(T, "port_close", <<>>) EXCEPT !.port = FALSE]

\* a test that takes any answer beginning like the probe
MatchedPrefix(T, device, baud_rate, response) ==
    IF response # <<>> /\ response = SubSeq(ScanProbe, 1, Len(response))
    THEN [Event(T, "read", response) EXCEPT !.found = Append(@, <<device, baud_rate>>)]
    ELSE Event(T, "read", response)

\* else: if response == b'\x00\x40\x00\xf0': good_ports.append(...)
Matched(T, device, baud_rate, response) ==
    IF response = ScanProbe
    THEN [Event(T, "read", response) EXCEPT !.found = Append(@, <<device, baud_rate>>)]
    ELSE Event(T, "read", response)

\* the try statement around s.read(4): the except clause continues with the
\* next baud rate, any other exception goes on to the caller, and s.close()
\* runs in every case
ProbeRead(T, env, device, baud_rate) ==
    IF T.exc # "none" THEN T
    ELSE IF Faulty(env, device, baud_rate, "read")
    THEN IF env.fault.exc \in {"PortNotOpenError", "TimeoutError"}
         THEN ProbeClose(T)
         ELSE Raise(ProbeClose(T), env.fault.exc)
    ELSE ProbeClose(Matched(T, device, baud_rate, ProbeResponse(env, device, baud_rate)))

\* the body of the loop over the baud rates
Candidate(T, env, device, baud_rate) ==
    ProbeRead(ProbeWrite(ProbeOpen(T, env, device, baud_rate), env, device, baud_rate),
              env, device, baud_rate)

\* for baud_rate in (57600, 9600, 38400, 19200)
RECURSIVE BaudLoop(_, _, _, _)
BaudLoop(T, env, device, i) ==
    IF T.exc # "none" \/ i > Len(BaudRates) THEN T
    ELSE BaudLoop(Candidate(T, env, device, BaudRates[i]), env, device, i + 1)

\* (vid is None or port.vid == vid) and (pid is None or port.pid == pid);
\* None is the empty sequence, an identifier v is <<v>>
Passes(port, vid, pid) ==
    /\ vid = <<>> \/ port.vid = vid[1]
    /\ pid = <<>> \/ port.pid = pid[1]

\* for port in ports
RECURSIVE PortLoop(_, _, _, _, _)
PortLoop(T, env, vid, pid, i) ==
    IF T.exc # "none" \/ i > Len(ComPorts) THEN T
    ELSE PortLoop(IF Passes(ComPorts[i], vid, pid)
                  THEN BaudLoop(T, env, ComPorts[i].device, 1)
                  ELSE T,
                  env, vid, pid, i + 1)

\* SupraConSQUID.list_devices
list_devices(T, env, vid, pid) == Return(PortLoop(T, env, vid, pid, 1), "list")

---------------------------------------------------------------------------
(* Inputs of the calls *)

Quiet == [a \in Slots |-> <<"echo", 0>>]

BreakPoints == (0..MaxBreak) \cup {6 + k : k \in 1..MaxBreak}

SetterReplies == {"ack", "echo", "empty"}

OpenEnvs ==
    {[portfail |-> TRUE, brk |-> 0, scan |-> TRUE, probe |-> Quiet, reply |-> <<"ack">>]}
        \cup {[portfail |-> FALSE, brk |-> b, scan |-> TRUE, probe |-> p, reply |-> <<k>>] :
                b \in BreakPoints, p \in [Slots -> ProbeKinds], k \in SetterReplies}

CloseEnvs ==
    {[portfail |-> FALSE, brk |-> b, scan |-> FALSE, probe |-> Quiet, reply |-> <<k>>] :
        b \in BreakPoints, k \in SetterReplies}

\* a single exchange: answered in one of the given ways, or the line is down
CallEnvs(kinds) ==
    {[portfail |-> FALSE, brk |-> 0, scan |-> FALSE, probe |-> Quiet, reply |-> <<k>>] :
        k \in kinds}
        \cup {[portfail |-> FALSE, brk |-> 1, scan |-> FALSE, probe |-> Quiet,
                reply |-> <<"ack">>]}

\* the ten exchanges of an autotune: all acknowledged, or all but the k-th
AutoTuneEnvs ==
    {[portfail |-> FALSE, brk |-> 0, scan |-> FALSE, probe |-> Quiet,
      reply |-> [i \in 1..10 |-> IF i = k THEN "echo" ELSE "ack"]] : k \in 0..10}

VoltArgs == {-2500, 1250, 2501}
DetectorArgs == {0, 2500, 2501}
HeaterArgs == {10000, 10001}
DurationArgs == {0, 65535, 65536}
ChangeArgs == {-32769, -32768, -256, -12, -1, 0, 1, 255, 256, 32767, 32768}
AutoTuneArgs == {<<-2500, 2500>>, <<2501, 0>>, <<0, 2501>>}
RawCommands == {10, 256}
RawData == {<<191, 255>>, <<18, 52>>, <<0, 256>>, <<0>>}
Items == Slots \cup {0}

VendorArgs == {<<>>, <<1027>>}
ProductArgs == {<<>>, <<24577>>}

NoFault == [at |-> <<0, 0>>, step |-> "none", exc |-> "none", bytes |-> <<>>]

ScanFaults ==
    {NoFault}
        \cup {[at |-> <<1, 9600>>, step |-> f[1], exc |-> f[2], bytes |-> <<>>] :
                f \in {<<"open", "SerialException">>, <<"write", "SerialException">>,
                       <<"read", "PortNotOpenError">>, <<"read", "TimeoutError">>,
                       <<"read", "SerialException">>}}
        \cup {[at |-> <<2, 38400>>, step |-> "reply", exc |-> "none", bytes |-> b] :
                b \in {<<0, 64>>, <<0, 64, 0, 241>>}}

ScanEnvs ==
    {[match |-> m, fault |-> f] :
        m \in {{}, {<<2, 9600>>}, {<<1, 57600>>, <<1, 9600>>, <<3, 19200>>}},
        f \in ScanFaults}

Bit(on) == IF on THEN 1 ELSE 0

---------------------------------------------------------------------------
(* State.  The caller makes one call at a time.  A call leads to a state    *)
(* that shows the call: wire is its I/O trace and last gives its name, the *)
(* channel it was made on, its arguments, what it returned or raised, and  *)
(* the device as the call found it.  The caller then takes the result      *)
(* (Returned), which clears wire and last, and is free to make any call.   *)

Here == [T |-> NewCall(is_open), channels |-> channels, held |-> held, orphans |-> orphans]

NoCall ==
    [op |-> "idle", channel |-> 0, args |-> <<>>, ret |-> "None", out |-> <<>>, val |-> 0,
     found |-> <<>>, exc |-> "none", was_open |-> FALSE, before |-> <<>>, kept |-> {}]

Done(op, channel, args, D) ==
    /\ last = NoCall
    /\ is_open' = D.T.port
    /\ channels' = D.channels
    /\ held' = D.held
    /\ orphans' = D.orphans
    /\ wire' = D.T.wire
    /\ last' = [op |-> op, channel |-> channel, args |-> args,
                ret |-> D.T.ret, out |-> D.T.out, val |-> D.T.val, found |-> D.T.found,
                exc |-> D.T.exc,
                was_open |-> is_open, before |-> channels, kept |-> held]

\* the end of list_devices: T.port was the scanner's own port
ScanDone(args, T) ==
    Done("list_devices", 0, args, [Here EXCEPT !.T = [T EXCEPT !.port = is_open]])

ChannelDone(op, ch, args, T) == Done(op, ch.channel, args, [Here EXCEPT !.T = T])

Registered == {channels[i] : i \in DOMAIN channels}

\* the state after self._channels = dict(), before Serial.__init__ opens the port
Init ==
    /\ is_open = FALSE
    /\ channels = <<>>
    /\ held = {}
    /\ orphans = {}
    /\ wire = <<>>
    /\ last = NoCall

---------------------------------------------------------------------------
(* Actions: one per operation of the device and of a channel *)

\* a call that returns at once meets no environment
Idle == [portfail |-> FALSE, brk |-> 0, scan |-> FALSE, probe |-> Quiet, reply |-> <<"ack">>]

Open ==
    /\ Cardinality(orphans) < MaxRefs
    /\ \E env \in (IF is_open THEN {Idle} ELSE OpenEnvs) :
          Done("open", 0, <<>>, open(Here, env))

Close ==
    \E env \in (IF is_open THEN CloseEnvs ELSE {Idle}) :
        Done("close", 0, <<>>, close(Here, env))

\* ch = device[item]; keep says whether the caller keeps the reference
GetItem ==
    \E item \in Items, keep \in BOOLEAN :
        LET g == __getitem__(channels, item)
            T == IF g.ok THEN Return(NewCall(is_open), "channel")
                 ELSE Raise(NewCall(is_open), g.exc)
        IN /\ keep => g.ok /\ Cardinality(held \cup {item}) + Cardinality(orphans) <= MaxRefs
           /\ Done("__getitem__", item, <<Bit(keep)>>,
                   [Here EXCEPT !.T = T, !.held = IF keep THEN @ \cup {item} ELSE @])

\* the last reference to a channel object outside the dict goes
Finalize ==
    \E o \in orphans, env \in CloseEnvs :
        Done("__del__", o.channel, <<>>,
             [Here EXCEPT !.T = __del__(NewCall(is_open), env, o), !.orphans = @ \ {o}])

\* the scanner is a static method: it leaves the device as it is
ListDevices ==
    /\ last = NoCall
    /\ \E vid \in VendorArgs, pid \in ProductArgs, env \in ScanEnvs :
          ScanDone(<<vid, pid>>, list_devices(NewCall(FALSE), env, vid, pid))

Communicate ==
    \E ch \in Registered, command \in RawCommands, data \in RawData, env \in CallEnvs({"ack", "empty"}) :
        ChannelDone("_communicate", ch, <<command>> \o data,
                    _communicate(NewCall(is_open), env, ch, command, data))

Issue ==
    \E ch \in Registered, command \in RawCommands, data \in RawData, env \in CallEnvs(ReplyKinds) :
        ChannelDone("_issue", ch, <<command>> \o data,
                    _issue(NewCall(is_open), env, ch, command, data))

Query ==
    \E ch \in Registered, command \in RawCommands, data \in RawData, env \in CallEnvs(ReplyKinds) :
        ChannelDone("_query", ch, <<command>> \o data,
                    _query(NewCall(is_open), env, ch, command, data))

Firmware ==
    \E ch \in Registered, env \in CallEnvs(ReplyKinds) :
        ChannelDone("firmware", ch, <<>>, firmware(NewCall(is_open), env, ch))

ChangeAcFluxAmplitudeBy ==
    \E ch \in Registered, change \in ChangeArgs, env \in CallEnvs(SetterReplies) :
        ChannelDone("change_ac_flux_amplitude_by", ch, <<change>>,
                    change_ac_flux_amplitude_by(NewCall(is_open), env, ch, change))

AcFlux ==
    \E ch \in Registered, on \in BOOLEAN, env \in CallEnvs(SetterReplies) :
        ChannelDone("ac_flux", ch, <<Bit(on)>>, ac_flux(NewCall(is_open), env, ch, on))

ResetFll ==
    \E ch \in Registered, on \in BOOLEAN, env \in CallEnvs(SetterReplies) :
        ChannelDone("reset_fll", ch, <<Bit(on)>>, reset_fll(NewCall(is_open), env, ch, on))

TestIn ==
    \E ch \in Registered, on \in BOOLEAN, env \in CallEnvs(SetterReplies) :
        ChannelDone("test_in", ch, <<Bit(on)>>, test_in(NewCall(is_open), env, ch, on))

DcBias ==
    \E ch \in Registered, value \in VoltArgs, env \in CallEnvs(SetterReplies) :
        ChannelDone("dc_bias", ch, <<value>>, dc_bias(NewCall(is_open), env, ch, value))

Bias ==
    \E ch \in Registered, value \in VoltArgs, env \in CallEnvs(SetterReplies) :
        ChannelDone("bias", ch, <<value>>, bias(NewCall(is_open), env, ch, value))

Offset ==
    \E ch \in Registered, value \in VoltArgs, env \in CallEnvs(SetterReplies) :
        ChannelDone("offset", ch, <<value>>, offset(NewCall(is_open), env, ch, value))

Flux ==
    \E ch \in Registered, value \in VoltArgs, env \in CallEnvs(SetterReplies) :
        ChannelDone("flux", ch, <<value>>, flux(NewCall(is_open), env, ch, value))

HeatSquid ==
    \E ch \in Registered, duration_ms \in DurationArgs, env \in CallEnvs(SetterReplies) :
        ChannelDone("heat_squid", ch, <<duration_ms>>,
                    heat_squid(NewCall(is_open), env, ch, duration_ms))

AutoTuneSquid ==
    \E ch \in Registered, biases \in AutoTuneArgs, env \in AutoTuneEnvs :
        ChannelDone("auto_tune_squid", ch, biases,
                    auto_tune_squid(NewCall(is_open), env, ch, biases[1], biases[2]))

DetectorBias ==
    \E ch \in Registered, current_ua \in DetectorArgs, env \in CallEnvs(SetterReplies) :
        ChannelDone("detector_bias", ch, <<current_ua>>,
                    detector_bias(NewCall(is_open), env, ch, current_ua))

HeatDetector ==
    \E ch \in Registered, current_ua \in HeaterArgs, env \in CallEnvs(SetterReplies) :
        ChannelDone("heat_detector", ch, <<current_ua>>,
                    heat_detector(NewCall(is_open), env, ch, current_ua))

FastResetFll ==
    \E ch \in Registered, env \in CallEnvs(SetterReplies) :
        ChannelDone("fast_reset_fll", ch, <<>>, fast_reset_fll(NewCall(is_open), env, ch))

\* the caller has the result of the call
Returned ==
    /\ last # NoCall
    /\ wire' = <<>>
    /\ last' = NoCall
    /\ UNCHANGED <<is_open, channels, held, orphans>>

Next ==
    \/ Returned
    \/ Open
    \/ Close
    \/ GetItem
    \/ Finalize
    \/ ListDevices
    \/ Communicate
    \/ Issue
    \/ Query
    \/ Firmware
    \/ ChangeAcFluxAmplitudeBy
    \/ AcFlux
    \/ ResetFll
    \/ TestIn
    \/ DcBias
    \/ Bias
    \/ Offset
    \/ Flux
    \/ HeatSquid
    \/ AutoTuneSquid
    \/ DetectorBias
    \/ HeatDetector
    \/ FastResetFll

Spec == Init /\ [][Next]_vars

---------------------------------------------------------------------------
(* The module-level functions _map, _unmap and _command, called on their   *)
(* own.  last shows the call: for _map its arguments (x, minimum, maximum) *)
(* and the bytes it returned; for _command its arguments (action,          *)
(* parameter type, parameter) and the opcode in val.  Unmap decodes the    *)
(* bytes the _map call just returned with the same minimum and maximum:    *)
(* the value it returns is last.val / UNMAP_SCALE.                         *)

\* the ranges the driver maps over, each taken one unit beyond both ends
MapArgs ==
    {<<x, -2500, 2500>> : x \in -2501..2501}
        \cup {<<x, 0, 2500>> : x \in -1..2501}
        \cup {<<x, 0, 10000>> : x \in -1..10001}

ParameterTypes == {"int", "_DACOutput", "_FLLMode", "_Address"}

\* the members of a class, or plain integers around the 3 bits of a sub-parameter
Parameters(ptype) == IF ptype = "int" THEN {-1, 0, 1, 2, 4, 5, 7, 8} ELSE EnumValues(ptype)

\* the members of _Actions, and integers that are none
ActionArgs == (0..14) \cup {31, 32}

Map ==
    /\ last = NoCall
    /\ \E a \in MapArgs :
          LET m == _map(a[1], a[2], a[3])
          IN Done("_map", 0, a,
                  [Here EXCEPT !.T = IF m.ok
                                     THEN [NewCall(is_open) EXCEPT !.ret = "bytes", !.out = m.bytes]
                                     ELSE Raise(NewCall(is_open), "ValueError")])

Unmap ==
    /\ last.op = "_map" /\ last.exc = "none"
    /\ last' = [last EXCEPT !.op = "_unmap", !.ret = "float",
                            !.val = _unmap(last.out, last.args[2], last.args[3])[1]]
    /\ UNCHANGED <<is_open, channels, held, orphans, wire>>

Command ==
    /\ last = NoCall
    /\ \E action \in ActionArgs, ptype \in ParameterTypes :
          \E parameter \in Parameters(ptype) :
              LET c == _command(action, ptype, parameter)
              IN Done("_command", 0, <<action, ptype, parameter>>,
                      [Here EXCEPT !.T = IF c.ok
                                         THEN [NewCall(is_open) EXCEPT !.ret = "int", !.val = c.code]
                                         ELSE Raise(NewCall(is_open), "ValueError")])

CodecNext ==
    \/ Map
    \/ Unmap
    \/ Command
    \/ Returned

Codec == Init /\ [][CodecNext]_vars

---------------------------------------------------------------------------
(* Reading a call's trace *)

IsWrite(e) == e[1] = "write"

\* the frames a trace transmitted, in order
Frames(w) == LET ws == SelectSeq(w, IsWrite) IN [i \in DOMAIN ws |-> ws[i][2]]

\* what a finalizer and a constructor transmit on a line that acknowledges
TeardownFrames(ch) == Frames(__del__(NewCall(TRUE), Idle, ch).wire)
InitFrames(ch) == Frames(__init__(NewCall(TRUE), Idle, ch).wire)

RECURSIVE AllTeardownFrames(_)
AllTeardownFrames(chs) ==
    IF chs = <<>> THEN <<>> ELSE TeardownFrames(Head(chs)) \o AllTeardownFrames(Tail(chs))

Opcodes(frames) == {frames[i][2] : i \in DOMAIN frames}

FramesTo(w, a) == LET fs == Frames(w) IN {fs[i] : i \in {j \in DOMAIN fs : fs[j][1] = a}}

ProbeOf(a) == <<a, 64, 0, 240>>

\* whether the capability probe of address a was transmitted and read back
Probed_(w, a) ==
    \E i \in DOMAIN w : i < Len(w) /\ w[i] = <<"write", ProbeOf(a)>> /\ w[i + 1][1] = "read"

\* the bytes read back after the capability probe of address a
ProbeAnswer(w, a) ==
    w[(CHOOSE i \in DOMAIN w : i < Len(w) /\ w[i] = <<"write", ProbeOf(a)>>) + 1][2]

IsCapabilityAnswer(r) == Len(r) >= 2 /\ r[2] = ACK

\* the registered channel with key a
ChannelAt(a) == channels[CHOOSE i \in DOMAIN channels : channels[i].channel = a]

OpenedNow == last.op = "open" /\ ~last.was_open
ClosedNow == last.op = "close" /\ last.was_open

ValidRaw(args) ==
    /\ Len(args) = 3
    /\ \A i \in DOMAIN args : 0 <= args[i] /\ args[i] <= BYTE_MAX

---------------------------------------------------------------------------
(* Claims *)

\* C1: in every reachable state, whatever calls were made and however they
\* ended, a closed device (transport not open) has an empty channel map.
C1_ClosedDeviceHasNoChannels == ~is_open => channels = <<>>

\* C1 witness: a close that found channels has closed the transport
C1_Witness ==
    ClosedNow /\ Len(last.before) = 2 /\ ~is_open /\ channels = <<>> /\ last.exc = "none"

\* C2 (as claimed): an open() that does not complete, because it fails with
\* ConnectionError at some address of the capability scan, leaves the channel map empty.
C2_FailedOpenLeavesNoChannels ==
    (OpenedNow /\ last.exc = "ConnectionError") => channels = <<>>

\* C3 (as claimed): a close() of an open device with channels that completes has
\* transmitted the teardown frames of every channel of the map, in map order,
\* then the global DC-bias frame, then the zero frame, and closed the transport last.
C3_CloseTransmitsEveryTeardownFirst ==
    (ClosedNow /\ last.before # <<>> /\ last.exc = "none") =>
        /\ Frames(wire) = AllTeardownFrames(last.before) \o <<<<BROADCAST, 8, 0, 0>>, ZeroFrame>>
        /\ wire[Len(wire)] = <<"port_close", <<>>>>
        /\ ~is_open

\* C4 (as claimed): the teardown of a channel with the standard capability sends
\* every kind of frame its initialization sent, and a SET_FLL_MODE/RESET_MODE frame.
C4_TeardownReappliesInit ==
    (ClosedNow /\ last.exc = "none" /\ last.kept = {}) =>
        \A i \in DOMAIN last.before :
            BitAnd(last.before[i].capabilities_code, 1) = 1 =>
                Opcodes(InitFrames(last.before[i])) \cup {SET_FLL_MODE * 8 + RESET_MODE}
                    \subseteq {f[2] : f \in FramesTo(wire, last.before[i].channel)}

\* C5: the keys of the channel map are distinct addresses in 1..32 in ascending
\* order; an open() that completes has probed every address 1..32 once, in
\* ascending order, with (address,0x40,0x00,0xF0), and the map holds exactly the
\* addresses whose answer had 0xFF as second byte, each with the big-endian mask
\* of the answer's last two bytes; open() fails with a protocol error only after
\* an answer that is neither a capability answer nor the echo of the probe.
C5_DiscoveryFindsExactlyTheResponders ==
    /\ \A i \in DOMAIN channels :
          /\ channels[i].channel \in FIRST_CHANNEL..LAST_CHANNEL
          /\ \A j \in DOMAIN channels : i < j => channels[i].channel < channels[j].channel
    /\ (OpenedNow /\ last.exc = "none") =>
          /\ SelectSeq(Frames(wire), IsProbe) = [a \in 1..32 |-> ProbeOf(a)]
          /\ \A a \in 1..32 :
                /\ Probed_(wire, a)
                /\ a \in Keys(channels) <=> IsCapabilityAnswer(ProbeAnswer(wire, a))
                /\ (a \in Keys(channels) /\ Len(ProbeAnswer(wire, a)) = 4) =>
                      ChannelAt(a).capabilities_code
                          = 256 * ProbeAnswer(wire, a)[3] + ProbeAnswer(wire, a)[4]
    /\ (OpenedNow /\ last.exc \in {"ConnectionError", "IndexError"}) =>
          \E a \in 1..32 :
              /\ Probed_(wire, a)
              /\ ~IsCapabilityAnswer(ProbeAnswer(wire, a))
              /\ ProbeAnswer(wire, a) # ProbeOf(a)

\* C5 witness: one responder, at address 5 with mask 0x0102, every other address echoes
C5_Witness ==
    /\ OpenedNow /\ last.exc = "none"
    /\ channels = <<[channel |-> 5, capabilities_code |-> 258]>>
    /\ \A a \in (1..32) \ {5} : ProbeAnswer(wire, a) = ProbeOf(a)
    /\ ProbeAnswer(wire, 5) = <<5, 255, 1, 2>>

\* C6 (as claimed): an answer to a capability probe that is neither a capability
\* answer nor the exact echo of the probe, a short or empty one included, makes
\* open() fail with ConnectionError.
C6_BadProbeAnswerIsProtocolError ==
    (OpenedNow /\ \E a \in 1..32 : /\ Probed_(wire, a)
                                  /\ ~IsCapabilityAnswer(ProbeAnswer(wire, a))
                                  /\ ProbeAnswer(wire, a) # ProbeOf(a))
        => last.exc = "ConnectionError"

\* C7: _issue with valid bytes on channel c makes one exchange, the write of
\* (c,command,d0,d1) and one read, and returns True exactly when the bytes read
\* are (c,0xFF,d0,d1), False for any other answer; it raises only when the write
\* itself failed, and then nothing was read.
C7_IssueIsOneExchangeAndExactEcho ==
    (last.op = "_issue" /\ ValidRaw(last.args)) =>
        IF last.exc = "none"
        THEN /\ Len(wire) = 2
             /\ wire[1] = <<"write", <<last.channel>> \o last.args>>
             /\ wire[2][1] = "read"
             /\ last.ret = IF wire[2][2] = <<last.channel, 255, last.args[2], last.args[3]>>
                           THEN "True" ELSE "False"
        ELSE last.exc = "SerialException" /\ wire = <<>>

\* C7 witness: an answer with the right address and flag and other data gives False
C7_Witness ==
    /\ last.op = "_issue" /\ last.args = <<10, 191, 255>> /\ last.exc = "none"
    /\ wire[2] = <<"read", <<last.channel, 255, 18, 52>>>>
    /\ last.ret = "False"

\* C8 (as claimed): _query with valid bytes on channel c returns the last two
\* bytes of a 4-byte answer whenever the answer starts with (c,0xFF), whatever
\* those two bytes are, and raises ConnectionError exactly when it does not.
C8_QueryReturnsThePayload ==
    (last.op = "_query" /\ ValidRaw(last.args) /\ Len(wire) = 2 /\ Len(wire[2][2]) = 4) =>
        IF wire[2][2][1] = last.channel /\ wire[2][2][2] = 255
        THEN last.exc = "none" /\ last.out = <<wire[2][2][3], wire[2][2][4]>>
        ELSE last.exc = "ConnectionError"

StandardOps ==
    {"bias", "dc_bias", "offset", "flux", "ac_flux", "test_in", "reset_fll", "heat_squid",
     "change_ac_flux_amplitude_by", "auto_tune_squid"}

ExtendedOps == {"detector_bias", "heat_detector", "fast_reset_fll"}

\* C9: a standard operation on a channel whose capability mask has bit 0 clear
\* returns False, raises nothing, transmits no frame and reads nothing.
C9_StandardOpsNeedBit0 ==
    (last.op \in StandardOps /\ BitAnd(ChannelAt(last.channel).capabilities_code, 1) = 0) =>
        last.ret = "False" /\ last.exc = "none" /\ wire = <<>>

\* C9 witness: an autotune on a channel with mask 0x0102
C9_Witness ==
    /\ last.op = "auto_tune_squid" /\ last.args = <<-2500, 2500>>
    /\ ChannelAt(last.channel).capabilities_code = 258
    /\ last.ret = "False" /\ wire = <<>>

\* C10 (as claimed): an extended operation on a channel whose capability mask
\* does not have bits 0 and 1 both set returns False and does no I/O.
C10_ExtendedOpsNeedBits0And1 ==
    (last.op \in ExtendedOps /\ BitAnd(ChannelAt(last.channel).capabilities_code, 3) # 3) =>
        last.ret = "False" /\ last.exc = "none" /\ wire = <<>>

Setters ==
    {"bias", "dc_bias", "offset", "flux", "detector_bias", "heat_detector", "heat_squid",
     "ac_flux", "test_in", "reset_fll", "fast_reset_fll", "change_ac_flux_amplitude_by"}

\* whether the argument of the setter call shown by last is in its documented range
InRange ==
    CASE last.op \in {"bias", "dc_bias", "offset", "flux"} ->
             -2500 <= last.args[1] /\ last.args[1] <= 2500
      [] last.op = "detector_bias" -> 0 <= last.args[1] /\ last.args[1] <= 2500
      [] last.op = "heat_detector" -> 0 <= last.args[1] /\ last.args[1] <= 10000
      [] last.op = "heat_squid" -> 0 <= last.args[1] /\ last.args[1] <= 65535
      [] last.op = "change_ac_flux_amplitude_by" ->
             -32768 <= last.args[1] /\ last.args[1] < 32768
      [] OTHER -> TRUE

\* whether the channel of the call shown by last has the capability bits the
\* operation is documented to need
Capable ==
    IF last.op \in ExtendedOps
    THEN BitAnd(ChannelAt(last.channel).capabilities_code, 3) = 3
    ELSE BitAnd(ChannelAt(last.channel).capabilities_code, 1) = 1

\* C11 (as claimed): a physical setter called with an in-range argument on a
\* channel that has the required capability bits returns a boolean and raises
\* nothing, whatever the device answers, as long as the transport itself works.
C11_SettersReturnABoolean ==
    (last.op \in Setters /\ InRange /\ Capable /\ last.exc # "SerialException") =>
        last.exc = "none" /\ last.ret \in {"True", "False"}

\* the operations of a channel that take a value with a documented range
RangedOps ==
    {"bias", "dc_bias", "offset", "flux", "detector_bias", "heat_detector", "heat_squid",
     "change_ac_flux_amplitude_by", "auto_tune_squid"}

\* C12 (as claimed): a channel operation, the compound auto_tune_squid
\* included, that raises ValueError for an out-of-range value has transmitted
\* no frame and read nothing during that call.
C12_RangeErrorComesBeforeAnyIO ==
    (last.op \in RangedOps /\ last.exc = "ValueError") => wire = <<>>

RawOps == {"_communicate", "_issue", "_query"}

\* C13: _communicate, _issue and _query called with a command outside 0..255,
\* a data byte outside 0..255 or a number of data bytes other than two raise
\* (ValueError, or BytesWarning for a data byte) with nothing written or read.
C13_BadBytesAreRejectedBeforeAnyIO ==
    (last.op \in RawOps /\ ~ValidRaw(last.args)) =>
        last.exc \in {"ValueError", "BytesWarning"} /\ wire = <<>>

\* C13 witness: a data byte of 256 handed to _communicate
C13_Witness ==
    /\ last.op = "_communicate" /\ last.args = <<10, 0, 256>>
    /\ last.exc = "BytesWarning" /\ wire = <<>>

\* the frames of auto_tune_squid(start_bias, end_bias) on channel c, in the
\* order of the elements of its tuple
AutoTuneFrames(c, start_bias, end_bias) ==
    << <<c, _command(DAC_OUTPUT, "_DACOutput", OFFSET).code>> \o _map(0, -2500, 2500).bytes,
       <<c, _command(DAC_OUTPUT, "_DACOutput", FLUX).code>> \o _map(0, -2500, 2500).bytes,
       <<c, _command(SET_FLL_MODE, "_FLLMode", FLL_MODE).code, 0, 0>>,
       <<c, _command(SWITCH_AC_FLUX, "int", 0).code, 0, 0>>,
       <<c, _command(SWITCH_TEST_IN, "int", 0).code, 0, 0>>,
       <<c, _command(WRITE_NONVOLATILE_MEMORY, "int", 0).code, 0, START_BIAS>>,
       <<c, _command(WRITE_NONVOLATILE_MEMORY, "int", 0).code>>
           \o _map(start_bias, -2500, 2500).bytes,
       <<c, _command(WRITE_NONVOLATILE_MEMORY, "int", 0).code, 0, END_BIAS>>,
       <<c, _command(WRITE_NONVOLATILE_MEMORY, "int", 0).code>>
           \o _map(end_bias, -2500, 2500).bytes,
       <<c, _command(START_AUTOTUNE, "int", 0).code, 0, 0>> >>

\* whether the k-th exchange of the call was acknowledged by the echo check
Acknowledged(w, k) ==
    w[2 * k] = <<"read", <<w[2 * k - 1][2][1], ACK, w[2 * k - 1][2][3], w[2 * k - 1][2][4]>>>>

\* an autotune with in-range biases on a channel with bit 0 that the transport carried
AutoTuned ==
    /\ last.op = "auto_tune_squid" /\ last.exc = "none"
    /\ BitAnd(ChannelAt(last.channel).capabilities_code, 1) = 1
    /\ \A i \in DOMAIN last.args : -2500 <= last.args[i] /\ last.args[i] <= 2500

\* C14: an autotune with in-range biases on a capable channel makes its ten
\* exchanges whatever their answers, transmits nothing else (no compensating
\* frame), and returns True exactly when all ten were acknowledged.
C14_AutoTuneIsTheConjunctionOfItsSteps ==
    AutoTuned =>
        /\ Len(wire) = 20
        /\ Frames(wire) = AutoTuneFrames(last.channel, last.args[1], last.args[2])
        /\ last.ret = IF \A k \in 1..10 : Acknowledged(wire, k) THEN "True" ELSE "False"

\* C14 witness: the second exchange was not acknowledged, the last one was
C14_Witness ==
    /\ AutoTuned /\ last.ret = "False" /\ Len(wire) = 20
    /\ ~Acknowledged(wire, 2) /\ Acknowledged(wire, 10)

\* the frames of an autotune in the order the claim gives, with the FLL put
\* into reset mode
ClaimedAutoTuneFrames(c, start_bias, end_bias) ==
    [AutoTuneFrames(c, start_bias, end_bias) EXCEPT
        ![3] = <<c, _command(SET_FLL_MODE, "_FLLMode", RESET_MODE).code, 0, 0>>]

\* C15 (as claimed): auto_tune_squid transmits offset 0, flux 0, SET_FLL_MODE
\* with RESET_MODE, AC flux off, test input off, the start-bias address, the
\* encoded start bias, the end-bias address, the encoded end bias and the
\* start-autotune frame, in this order.
C15_AutoTuneFrameOrder ==
    AutoTuned =>
        Frames(wire) = ClaimedAutoTuneFrames(last.channel, last.args[1], last.args[2])

\* C16: open() on an open device and close() on a closed device transmit
\* nothing, read nothing, raise nothing and leave the open/closed state, the
\* channel map and the channel objects as they were.
C16_RepeatedOpenAndCloseDoNothing ==
    ((last.op = "open" /\ last.was_open) \/ (last.op = "close" /\ ~last.was_open)) =>
        /\ wire = <<>> /\ last.exc = "none"
        /\ is_open = last.was_open
        /\ channels = last.before /\ held = last.kept

\* C16 witness: open() on an open device that has two channels
C16_Witness ==
    /\ last.op = "open" /\ last.was_open /\ is_open
    /\ Len(channels) = 2 /\ channels = last.before /\ wire = <<>>

\* whether the read of the single exchange shown by wire timed out
ReadTimedOut == Len(wire) = 2 /\ wire[2][1] = "read" /\ Len(wire[2][2]) < READ_SIZE

\* C17 (as claimed): when the read of an _issue exchange times out, returning
\* fewer than 4 bytes, the call ends with an exception (an I/O failure) and
\* not with the False of a declined command.
C17_ReadTimeoutIsAnIOFailure ==
    (last.op = "_issue" /\ ValidRaw(last.args) /\ ReadTimedOut) =>
        last.exc # "none" /\ last.ret # "False"

Scanned == last.op = "list_devices"

\* the (port, baud rate) pairs the scanner opened, in order
Opened(w) ==
    LET opens == SelectSeq(w, LAMBDA e : e[1] = "port_open")
    IN [k \in DOMAIN opens |-> opens[k][2]]

\* the (port, baud rate) pairs of the ports that pass the filter, by port and
\* then by the order of the baud rates
Candidates(vid, pid) ==
    LET passing == SelectSeq(ComPorts, LAMBDA port : Passes(port, vid, pid))
    IN [k \in 1..(Len(passing) * Len(BaudRates)) |->
           <<passing[((k - 1) \div Len(BaudRates)) + 1].device,
             BaudRates[((k - 1) % Len(BaudRates)) + 1]>>]

\* the pairs whose probe was read back as the 4 bytes of the probe, from the
\* p-th event of the trace on
RECURSIVE ReadBackExactly(_, _)
ReadBackExactly(w, p) ==
    IF p > Len(w) THEN <<>>
    ELSE (IF w[p][1] = "port_open" /\ p + 2 <= Len(w) /\ w[p + 2] = <<"read", ScanProbe>>
          THEN <<w[p][2]>> ELSE <<>>) \o ReadBackExactly(w, p + 1)

\* C18 (as claimed): the scanner never aborts: whatever happens at a
\* candidate while its port is opened, written or read, list_devices returns
\* its list and raises nothing.
C18_ScanNeverAborts ==
    Scanned => last.exc = "none" /\ last.ret = "list"

\* C19 (as claimed): every port the scanner opened is closed again before
\* the next one is opened and before the scan ends, whatever the outcome.
C19_EveryOpenedPortIsClosed ==
    Scanned =>
        \A p \in DOMAIN wire : wire[p][1] = "port_open" =>
            \E q \in DOMAIN wire :
                /\ q > p /\ wire[q][1] = "port_close"
                /\ \A r \in (p + 1)..(q - 1) : wire[r][1] # "port_open"

\* C20: a scan that returns has opened every port that passes the filter at
\* 57600, 9600, 38400 and 19200 in this order, port by port, and returns, in
\* that order, exactly the pairs whose read gave the 4 bytes of the probe.
C20_ScanReturnsExactlyTheMatches ==
    (Scanned /\ last.exc = "none") =>
        /\ last.ret = "list"
        /\ Opened(wire) = Candidates(last.args[1], last.args[2])
        /\ last.found = ReadBackExactly(wire, 1)

\* C20 witness: three ports, of which only the second answers, at 9600
C20_Witness ==
    /\ Scanned /\ last.exc = "none" /\ last.args = <<<<>>, <<>>>>
    /\ Len(Opened(wire)) = 12
    /\ last.found = <<<<2, 9600>>>>

\* C21 (as claimed): for minimum <= x <= maximum the value decoded from the
\* bytes of _map(x) differs from x by at most (maximum - minimum) / 65535.
\* With d the decoded value last.val / UNMAP_SCALE, |d - x| <= step is
\* |last.val - x * UNMAP_SCALE| * FULL_SCALE <= (maximum - minimum) * UNMAP_SCALE.
C21_RoundTripWithinOneStep ==
    last.op = "_unmap" =>
        LET diff == last.val - last.args[1] * UNMAP_SCALE
        IN (IF diff < 0 THEN -diff ELSE diff) * FULL_SCALE
               <= (last.args[3] - last.args[2]) * UNMAP_SCALE

\* C22: _map raises for every x outside [minimum, maximum] and for every x
\* inside returns the two big-endian bytes of a code in 0..65535, which is 0
\* for minimum and 65535 for maximum.
C22_MapIsDefinedOnTheClosedIntervalOnly ==
    last.op = "_map" =>
        IF last.args[2] <= last.args[1] /\ last.args[1] <= last.args[3]
        THEN /\ last.exc = "none" /\ Len(last.out) = 2
             /\ \A i \in 1..2 : last.out[i] \in 0..BYTE_MAX
             /\ last.args[1] = last.args[2] => last.out = <<0, 0>>
             /\ last.args[1] = last.args[3] => last.out = <<BYTE_MAX, BYTE_MAX>>
        ELSE last.exc = "ValueError" /\ last.out = <<>>

\* C22 witness: the maximum of the detector range gives 0xFFFF
C22_Witness ==
    last.op = "_map" /\ last.args = <<2500, 0, 2500>> /\ last.out = <<255, 255>>

\* C23: _command gives an opcode for DAC_OUTPUT only with a member of
\* _DACOutput and for SWITCH_FEEDBACK only with 0 or 1; with any other
\* sub-parameter, and with an action that is no member of _Actions, it raises
\* ValueError.
C23_CommandRejectsIllegalSubParameters ==
    last.op = "_command" =>
        /\ last.args[1] = DAC_OUTPUT =>
               (last.exc = "none" <=> last.args[2] = "_DACOutput")
        /\ last.args[1] = SWITCH_FEEDBACK =>
               (last.exc = "none" <=> last.args[3] \in {0, 1})
        /\ last.args[1] \notin DAC_OUTPUT..SET_DETECTOR_HEATER_CURRENT =>
               last.exc = "ValueError"
        /\ last.exc \in {"none", "ValueError"}

\* C23 witness: DAC_OUTPUT with the plain integer 2 is refused
C23_Witness ==
    last.op = "_command" /\ last.args = <<DAC_OUTPUT, "int", 2>> /\ last.exc = "ValueError"

\* the actions whose opcode carries no sub-parameter
PlainActions ==
    {ADC_INPUT_1, ADC_INPUT_95, START_AUTOTUNE, READ_NONVOLATILE_MEMORY,
     WRITE_NONVOLATILE_MEMORY, SWITCH_TEST_IN, CHANGE_INTERNAL_AC_FLUX_AMPLITUDE}

\* C29: every opcode _command returns is action * 8 + sub with sub in 0..7
\* and lies in 0..255; sub is 1 for SWITCH_AC_FLUX and 2 for
\* SQUID_HEATER_SWITCH whatever the parameter, 0 for the actions without
\* sub-parameter, and the parameter itself for the others.
C29_OpcodeLayout ==
    (last.op = "_command" /\ last.exc = "none") =>
        /\ last.val \in 0..BYTE_MAX
        /\ last.val \div 8 = last.args[1]
        /\ last.val % 8 =
               (IF last.args[1] = SWITCH_AC_FLUX THEN 1
                ELSE IF last.args[1] = SQUID_HEATER_SWITCH THEN 2
                ELSE IF last.args[1] \in PlainActions THEN 0
                ELSE last.args[3])

\* C29 witness: SWITCH_AC_FLUX called with parameter 5 gives 0x29
C29_Witness ==
    last.op = "_command" /\ last.args = <<SWITCH_AC_FLUX, "int", 5>> /\ last.val = 41

\* C24: on a device whose only channel is the one at address 0x05 with the
\* capability mask 0x03, bias(1.25) that ends without an exception has
\* transmitted exactly one frame, (0x05, 0x0A, 0xBF, 0xFF), has read once, and
\* has returned True exactly when the bytes read were (0x05, 0xFF, 0xBF, 0xFF).
C24_BiasScenario ==
    (/\ last.op = "bias" /\ last.channel = 5 /\ last.args = <<1250>>
     /\ last.before = <<[channel |-> 5, capabilities_code |-> 3]>>
     /\ last.exc = "none")
    => /\ Len(wire) = 2
       /\ wire[1] = <<"write", <<5, 10, 191, 255>>>>
       /\ wire[2][1] = "read"
       /\ last.ret = (IF wire[2][2] = <<5, 255, 191, 255>> THEN "True" ELSE "False")

\* bias(1.25) of the scenario answered by (0x05, 0xFF, 0xBF, 0xFF) returned True
C24_Witness ==
    /\ last.op = "bias" /\ last.channel = 5 /\ last.args = <<1250>>
    /\ last.before = <<[channel |-> 5, capabilities_code |-> 3]>>
    /\ wire = << <<"write", <<5, 10, 191, 255>>>>, <<"read", <<5, 255, 191, 255>>>> >>
    /\ last.ret = "True"

\* the frames open() is to transmit before the scan: detector bias, bias and
\* offset driven to the minimum on the broadcast address, the zero frame after each
DriveToMinimumFrames ==
    << <<255, 9, 0, 0>>, <<255, 0, 0, 0>>, <<255, 10, 0, 0>>, <<255, 0, 0, 0>>,
       <<255, 11, 0, 0>>, <<255, 0, 0, 0>> >>

\* C25: after open() on a closed device, however it ended, the trace starts
\* with the opening of the transport, the frames transmitted start with the
\* six frames (0xFF,9,0,0), (0xFF,0,0,0), (0xFF,0x0A,0,0), (0xFF,0,0,0),
\* (0xFF,0x0B,0,0), (0xFF,0,0,0) in this order (with as many of them as were
\* transmitted when an exception ended the call early), the seventh frame is
\* the capability probe of address 1 and no probe comes earlier; an open()
\* that ended without an exception has transmitted all six and the probe.
C25_OpenDrivesToMinimumBeforeTheScan ==
    OpenedNow =>
        LET fs == Frames(wire)
        IN /\ wire # <<>> => wire[1] = <<"port_open", <<>>>>
           /\ \A i \in DOMAIN fs :
                /\ i <= 6 => fs[i] = DriveToMinimumFrames[i]
                /\ i = 7 => fs[i] = ProbeOf(FIRST_CHANNEL)
                /\ fs[i][2] = 64 => i >= 7
           /\ last.exc = "none" => Len(fs) >= 7

\* an open() of a closed device that ended without an exception and found a channel
C25_Witness ==
    /\ OpenedNow /\ last.exc = "none" /\ channels # <<>>
    /\ SubSeq(Frames(wire), 1, 6) = DriveToMinimumFrames

\* the safe-default frames of a channel, as the spec lists them: detector bias
\* 0 where the mask has one of the two low bits, and, where it has bit 0, DC
\* bias 0, offset 0, flux 0 (0 V is 0x8000 on -2.5 .. 2.5 V), the AC-flux
\* amplitude changed by -12, AC flux off, test input off, bias 0
SafeDefaultFrames(ch) ==
    LET a == ch.channel
    IN (IF BitAnd(ch.capabilities_code, 3) # 0 THEN << <<a, 9, 0, 0>> >> ELSE <<>>)
       \o (IF BitAnd(ch.capabilities_code, 1) # 0
           THEN << <<a, 8, 128, 0>>, <<a, 11, 128, 0>>, <<a, 12, 128, 0>>,
                   <<a, 96, 255, 244>>, <<a, 41, 0, 0>>, <<a, 80, 0, 0>>, <<a, 10, 128, 0>> >>
           ELSE <<>>)

\* the frames of the scan from address a on: the probe of each address,
\* followed at once by the safe-default frames of the channel found there
RECURSIVE ScanFrames(_)
ScanFrames(a) ==
    IF a > LAST_CHANNEL THEN <<>>
    ELSE <<ProbeOf(a)>>
         \o (IF a \in Keys(channels) THEN SafeDefaultFrames(ChannelAt(a)) ELSE <<>>)
         \o ScanFrames(a + 1)

\* C26: after an open() of a closed device that ended without an exception,
\* the frames transmitted after the six broadcast frames are, address by
\* address from 1 to 32, the capability probe of the address followed, when a
\* channel was found there, by exactly the safe-default frames of that channel
\* gated by its capability mask, and by nothing else before the next probe.
C26_ChannelIsInitializedOnDiscovery ==
    (OpenedNow /\ last.exc = "none") =>
        Frames(wire) = DriveToMinimumFrames \o ScanFrames(FIRST_CHANNEL)

\* a successful open() that found two channels, one with the whole sequence
\* and one whose mask gates some of it off
C26_Witness ==
    /\ OpenedNow /\ last.exc = "none" /\ Len(channels) = 2
    /\ \E i \in DOMAIN channels : BitAnd(channels[i].capabilities_code, 1) = 1
    /\ \E i \in DOMAIN channels : BitAnd(channels[i].capabilities_code, 1) = 0

\* C27: in the trace of every call - open(), close(), a channel operation, a
\* finalizer, a raw exchange, the scanner - every write is of 4 bytes and is
\* followed at once by the one read made for it, and every read follows at
\* once the write it answers and returns at most 4 bytes: no two writes come
\* without a read between them.  (A read of the scanner that raised left no
\* bytes: what follows its write is the closing of the port in finally.)
C27_ExchangesAreNeverPipelined ==
    \A i \in DOMAIN wire :
        /\ wire[i][1] = "write" =>
             /\ Len(wire[i][2]) = 4
             /\ i < Len(wire)
             /\ \/ wire[i + 1][1] = "read"
                \/ Scanned /\ wire[i + 1][1] = "port_close"
        /\ wire[i][1] = "read" =>
             /\ Len(wire[i][2]) <= READ_SIZE
             /\ i > 1 /\ wire[i - 1][1] = "write"

\* a close() of a device with channels: the frames of the finalizers and the
\* two frames of close(), each answered before the next
C27_Witness ==
    /\ ClosedNow /\ last.before # <<>> /\ last.exc = "none"
    /\ Len(Frames(wire)) > 2
    /\ Len(SelectSeq(wire, LAMBDA e : e[1] = "read")) = Len(Frames(wire))

\* the number of settling delays of a trace
Delays(w) == Len(SelectSeq(w, LAMBDA e : e[1] = "sleep"))

\* C28: in the trace of every call, a write of the literal frame
\* (0xFF,0,0,0) comes right after one settling delay, and a settling delay is
\* followed by the write of that frame and of no other (or by nothing, when
\* the write then failed); an open() of a closed device that ended without an
\* exception has made exactly three delays, a close() of an open device that
\* ended without an exception exactly one, and no other call - no channel
\* operation, finalizer, raw exchange or scan - has made any.
C28_SettlingDelayOnlyAtTheZeroFrame ==
    /\ \A i \in DOMAIN wire :
         /\ wire[i] = <<"write", ZeroFrame>> => i > 1 /\ wire[i - 1][1] = "sleep"
         /\ wire[i][1] = "sleep" =>
              IF i < Len(wire) THEN wire[i + 1] = <<"write", ZeroFrame>>
              ELSE last.exc # "none"
    /\ (OpenedNow /\ last.exc = "none") => Delays(wire) = 3
    /\ (ClosedNow /\ last.exc = "none") => Delays(wire) = 1
    /\ ~OpenedNow /\ ~ClosedNow => Delays(wire) = 0

\* a close() of an open device with a channel: the finalizer's frames made
\* no delay and the zero frame of close() made the only one
C28_Witness ==
    /\ ClosedNow /\ last.before # <<>> /\ last.exc = "none"
    /\ Delays(wire) = 1
    /\ \E i \in DOMAIN wire : wire[i][1] = "write" /\ wire[i][2][1] \in FIRST_CHANNEL..LAST_CHANNEL

\* C30 (as claimed): device[a] returns the channel at a, without an
\* exception, for every address a among the keys of the channel map as it was
\* at the call, and raises IndexError for every other a.
C30_LookupByAddress ==
    last.op = "__getitem__" =>
        IF last.channel \in Keys(last.before)
        THEN last.exc = "none" /\ last.ret = "channel"
        ELSE last.exc = "IndexError"

\* the frames of a trace addressed to a, in order
FramesAt(w, a) == SelectSeq(Frames(w), LAMBDA f : f[1] = a)

\* C31: an open() of a closed device that failed with ConnectionError in the
\* capability scan has rolled nothing back: the transport is open and was
\* never closed, the last events are the probe and the answer that is neither
\* a capability answer nor the echo, the only broadcast frames are the six
\* sent before the scan, every channel found before the failure is still in
\* the map, and the frames to an address are its probe alone or its probe and
\* the safe-default frames of the channel found there, never a teardown
\* frame.  An open() of a device whose transport is open - as it is after the
\* failure - transmits nothing and leaves the map as it was; an open() of a
\* closed device that gets through the six broadcast frames starts the scan
\* at address 1.
C31_FailedOpenRollsNothingBack ==
    /\ (OpenedNow /\ last.exc = "ConnectionError") =>
         /\ is_open
         /\ \A i \in DOMAIN wire : wire[i][1] # "port_close"
         /\ Len(wire) >= 2
         /\ wire[Len(wire)][1] = "read"
         /\ ~IsCapabilityAnswer(wire[Len(wire)][2])
         /\ wire[Len(wire) - 1][1] = "write"
         /\ wire[Len(wire) - 1][2] = ProbeOf(wire[Len(wire) - 1][2][1])
         /\ wire[Len(wire)][2] # wire[Len(wire) - 1][2]
         /\ FramesAt(wire, BROADCAST) = DriveToMinimumFrames
         /\ \A a \in FIRST_CHANNEL..LAST_CHANNEL :
              FramesAt(wire, a) =
                  IF a \in Keys(channels) THEN <<ProbeOf(a)>> \o SafeDefaultFrames(ChannelAt(a))
                  ELSE IF a <= wire[Len(wire) - 1][2][1] THEN <<ProbeOf(a)>>
                  ELSE <<>>
         /\ \A a \in FIRST_CHANNEL..LAST_CHANNEL :
              (Probed_(wire, a) /\ IsCapabilityAnswer(ProbeAnswer(wire, a))) => a \in Keys(channels)
    /\ (last.op = "open" /\ last.was_open) =>
         is_open /\ wire = <<>> /\ channels = last.before /\ last.exc = "none"
    /\ (OpenedNow /\ Len(Frames(wire)) > 6) => Frames(wire)[7] = ProbeOf(FIRST_CHANNEL)

\* an open() that failed with ConnectionError after it had found a channel:
\* the channel is in the map and the transport is open
C31_Witness ==
    /\ OpenedNow /\ last.exc = "ConnectionError"
    /\ is_open /\ channels # <<>>

\* C32: an autotune with in-range biases on a capable channel, carried by the
\* transport, has transmitted ten frames, the last of them the start-autotune
\* frame, and after an exchange that was not acknowledged every later frame
\* of the sequence was still transmitted, in its place.
C32_AutoTuneDoesNotShortCircuit ==
    AutoTuned =>
        /\ Len(wire) = 20
        /\ Len(Frames(wire)) = 10
        /\ Frames(wire)[10] = <<last.channel, _command(START_AUTOTUNE, "int", 0).code, 0, 0>>
        /\ \A k \in 1..9 :
             ~Acknowledged(wire, k) =>
                 \A j \in (k + 1)..10 :
                     Frames(wire)[j] = AutoTuneFrames(last.channel, last.args[1], last.args[2])[j]

\* an autotune whose first exchange was not acknowledged and whose tenth
\* frame, the start of the autotune, was transmitted and acknowledged
C32_Witness ==
    /\ AutoTuned /\ Len(wire) = 20
    /\ ~Acknowledged(wire, 1)
    /\ wire[19] = <<"write", <<last.channel, _command(START_AUTOTUNE, "int", 0).code, 0, 0>>>>
    /\ Acknowledged(wire, 10)
    /\ last.ret = "False"

\* whether no frame occurs twice in a sequence of frames
Once(fs) == \A i, j \in DOMAIN fs : fs[i] = fs[j] => i = j

\* whether the exchange whose write is the i-th event of the trace was acknowledged
AcknowledgedAt(w, i) ==
    /\ i < Len(w)
    /\ w[i + 1] = <<"read", <<w[i][2][1], ACK, w[i][2][3], w[i][2][4]>>>>

\* C33: in an open() of a closed device, an address whose probe was answered
\* with 0xFF as second byte is in the channel map as soon as the scan went on
\* to the next address (or, for the last address, the open() ended without an
\* exception), whatever was read back after its initialization frames; and in
\* every open(), close() and finalizer, no frame addressed to a channel is
\* transmitted twice, acknowledged or not.
C33_SafeDefaultsAreNeitherCheckedNorRetried ==
    /\ OpenedNow =>
         \A a \in FIRST_CHANNEL..LAST_CHANNEL :
             (/\ Probed_(wire, a)
              /\ IsCapabilityAnswer(ProbeAnswer(wire, a))
              /\ IF a < LAST_CHANNEL THEN FramesAt(wire, a + 1) # <<>> ELSE last.exc = "none")
             => a \in Keys(channels)
    /\ last.op \in {"open", "close", "__del__"} =>
         \A a \in FIRST_CHANNEL..LAST_CHANNEL : Once(FramesAt(wire, a))

\* an open() that ended without an exception and registered a channel with
\* capability bit 0 none of whose eight initialization frames was acknowledged
C33_Witness ==
    /\ OpenedNow /\ last.exc = "none"
    /\ \E c \in DOMAIN channels :
         /\ BitAnd(channels[c].capabilities_code, 1) = 1
         /\ Len(FramesAt(wire, channels[c].channel)) = 9
         /\ \A i \in DOMAIN wire :
              (wire[i][1] = "write" /\ wire[i][2][1] = channels[c].channel)
                  => ~AcknowledgedAt(wire, i)

\* C34 (as claimed): a setter called with an out-of-range value on a channel
\* that lacks the capability bits the operation is documented to need (bit 0
\* for the standard set, bits 0 and 1 together for the extended set) returns
\* False with nothing written or read and raises nothing; it raises the
\* validation error only on a channel that has them.
C34_CapabilityCheckComesFirst ==
    (last.op \in Setters /\ ~InRange) =>
        IF Capable THEN last.exc = "ValueError"
        ELSE last.ret = "False" /\ last.exc = "none" /\ wire = <<>>

\* the 16-bit two's-complement big-endian bytes of n, for -32768 <= n <= 32767
TwosComplement(n) == <<((n + 65536) % 65536) \div 256, (n + 65536) % 256>>

\* C35: change_ac_flux_amplitude_by(change) on a channel with capability bit 0:
\* for change = 0 it returns True and nothing is written or read; for every
\* other change in -32768..32767 it writes exactly one frame, (channel, 0x60,
\* hi, lo) with hi, lo the two's-complement big-endian bytes of the change,
\* reads once and returns whether the answer was the acknowledgement (a write
\* that the transport refused leaves nothing transmitted); for a change
\* outside the range it raises ValueError and nothing is written or read.
C35_AmplitudeChangeEncoding ==
    (/\ last.op = "change_ac_flux_amplitude_by"
     /\ BitAnd(ChannelAt(last.channel).capabilities_code, 1) = 1)
    => IF last.args[1] = 0
       THEN last.ret = "True" /\ last.exc = "none" /\ wire = <<>>
       ELSE IF -32768 <= last.args[1] /\ last.args[1] <= 32767
       THEN \/ last.exc \in {"SerialException", "PortNotOpenError"} /\ wire = <<>>
            \/ /\ last.exc = "none"
               /\ Len(wire) = 2
               /\ wire[1] = <<"write", <<last.channel, CHANGE_INTERNAL_AC_FLUX_AMPLITUDE * 8>>
                                           \o TwosComplement(last.args[1])>>
               /\ wire[2][1] = "read"
               /\ last.ret = IF AcknowledgedAt(wire, 1) THEN "True" ELSE "False"
       ELSE last.exc = "ValueError" /\ wire = <<>>

\* a change of -1 transmitted as (channel, 0x60, 0xFF, 0xFF) and acknowledged
C35_Witness ==
    /\ last.op = "change_ac_flux_amplitude_by" /\ last.args = <<-1>>
    /\ wire = << <<"write", <<last.channel, 96, 255, 255>>>>,
                 <<"read", <<last.channel, 255, 255, 255>>>> >>
    /\ last.ret = "True"

====
